---- MODULE Spec2Model ----
(***************************************************************************)
(* A model of the routing pipeline of basis-2: the chunking engine         *)
(* (src/router/chunking.py), the result aggregator                         *)
(* (src/router/aggregator.py) and the routing orchestrator                 *)
(* (src/router.py).                                                        *)
(*                                                                         *)
(* Text is a sequence of one-character strings.  Python's str operations   *)
(* (slicing with negative indices, rfind, strip, split, join) are modelled *)
(* by what they compute.                                                   *)
(***************************************************************************)
EXTENDS Integers, Sequences, FiniteSets, TLC

(***************************************************************************)
(* Bounds of the model.                                                    *)
(***************************************************************************)
\* the largest chunk_size (in tokens) of a chunking config
MaxChunkSize == 5
\* the largest number of words a text is made of
MaxWords == 3
\* the largest number of windows the fixed-size loop is followed for
MaxWindows == 14

(***************************************************************************)
(* Characters and texts.                                                   *)
(***************************************************************************)
SP == " "
LF == "\n"
Whitespace == {SP, LF}

\* fifteen letters: long enough that a boundary marker after it lies past
\* 70% of a 20-character window
LongWord == [i \in 1..15 |-> "a"]

Words == { <<"a">>, <<SP>>, <<".">>, <<LF>>, LongWord }

RECURSIVE Flatten(_)
Flatten(ss) == IF ss = <<>> THEN <<>> ELSE Head(ss) \o Flatten(Tail(ss))

Texts == { Flatten(ws) : ws \in UNION { [1..n -> Words] : n \in 0..MaxWords } }

\* a chunk size whose 70% threshold, 126 of 180 characters, is a whole
\* number that the floating-point product falls short of
RoundingChunkSize == 45

\* n letters
Letters(n) == [i \in 1..n |-> "a"]

\* texts longer than a window of RoundingChunkSize tokens, with one marker
\* just before, at and just after 70% of the window
ProbeTexts ==
    { Letters(p) \o m \o Letters(60) :
         p \in {125, 126, 127}, m \in { <<".", SP>>, <<LF>> } }

(***************************************************************************)
(* Python helpers.                                                         *)
(***************************************************************************)
Min(a, b) == IF a <= b THEN a ELSE b
Max(a, b) == IF a >= b THEN a ELSE b

\* a slice bound of a sequence of length n: negative counts from the end,
\* then clamped to 0..n
PyIndex(i, n) == IF i < 0 THEN Max(i + n, 0) ELSE Min(i, n)

\* s[i:j] cut one character late
Slice_EndInclusive(s, i, j) ==
    LET lo == PyIndex(i, Len(s))
        hi == PyIndex(j + 1, Len(s))
    IN  IF lo >= hi THEN <<>> ELSE SubSeq(s, lo + 1, hi)

\* s[i:j]
Slice(s, i, j) ==
    LET lo == PyIndex(i, Len(s))
        hi == PyIndex(j, Len(s))
    IN  IF lo >= hi THEN <<>> ELSE SubSeq(s, lo + 1, hi)

\* s.rfind(p): the highest 0-based index at which p occurs in s, or -1
RFind(s, p) ==
    LET hits == { i \in 0..(Len(s) - Len(p)) : SubSeq(s, i + 1, i + Len(p)) = p }
    IN  IF hits = {} THEN -1 ELSE CHOOSE i \in hits : \A j \in hits : j <= i

\* s.strip()
Strip(s) ==
    LET idx == { i \in 1..Len(s) : s[i] \notin Whitespace }
    IN  IF idx = {} THEN <<>>
        ELSE SubSeq(s, CHOOSE i \in idx : \A j \in idx : i <= j,
                       CHOOSE i \in idx : \A j \in idx : j <= i)

\* [c for c in chunks if len(c) > 1]
NonEmpty_DropsSingleCharacter(ss) == SelectSeq(ss, LAMBDA c : Len(c) > 1)

\* [c for c in chunks if c]
NonEmpty(ss) == SelectSeq(ss, LAMBDA c : c # <<>>)

(***************************************************************************)
(* ChunkingConfig (src/router/types.py) and the configs the model draws.   *)
(***************************************************************************)
Strategies == {"fixed_size", "semantic", "sliding_window", "other"}

ValidConfig(c) == c.chunk_size > 0 /\ c.overlap >= 0 /\ c.overlap < c.chunk_size

Configs ==
    [enabled : BOOLEAN, strategy : Strategies,
     chunk_size : 0..MaxChunkSize, overlap : 0..MaxChunkSize]

\* texts of three and four paragraphs of two tokens or none
ParagraphTexts ==
    { Letters(8) \o <<LF, LF>> \o Letters(8) \o <<LF, LF>> \o Letters(8),
      Letters(8) \o <<LF, LF, LF, LF>> \o Letters(8) \o <<LF, LF>> \o <<"a">>,
      <<LF, LF>> \o Letters(8) \o <<LF, LF, LF>> \o Letters(8) \o <<LF>> }

\* the configs the paragraph texts are chunked with
ParagraphConfigs ==
    [enabled : {TRUE}, strategy : {"semantic"},
     chunk_size : 1..MaxChunkSize, overlap : {0}]

\* the configs the probe texts are chunked with
ProbeConfigs ==
    [enabled : {TRUE}, strategy : {"fixed_size"},
     chunk_size : {RoundingChunkSize}, overlap : {0, 5}]

(***************************************************************************)
(* ChunkingEngine.estimate_tokens: the fallback branch, 4 characters per    *)
(* token (the tiktoken branch depends on an optional package).             *)
(***************************************************************************)
CharsPerToken == 4

estimate_tokens(t) == Len(t) \div CharsPerToken

(***************************************************************************)
(* ChunkingEngine._fixed_size_chunk: one pass of the while loop.           *)
(***************************************************************************)
estimated_chunk_size(c) == c.chunk_size * CharsPerToken

\* the boundary markers, in the order the loop tries them
Puncts == << <<".", SP>>, <<"!", SP>>, <<"?", SP>>, <<LF, LF>>, <<LF>> >>

\* the power of two 2^e with 2^e <= n < 2^(e+1)
RECURSIVE Binade(_)
Binade(n) == IF n < 2 THEN 1 ELSE 2 * Binade(n \div 2)

\* estimated_chunk_size * 0.7 is a product of doubles.  The double 0.7 is
\* 0.4 * 2^-53 below seven tenths, so the exact product lies 0.4 * ecs *
\* 2^-53 below 7 * ecs / 10.  When that is a whole number N, the product
\* rounds to the double just below N exactly when this distance is more
\* than half the spacing 2^(e-52) of the doubles of N's binade, that is
\* when 4 * N > 7 * 2^e; otherwise it rounds to N.  When 7 * ecs / 10 is
\* not whole the rounding does not change the comparison with an integer.
ThresholdRoundsBelow(ecs) ==
    /\ (7 * ecs) % 10 = 0
    /\ ecs > 0
    /\ 4 * ((7 * ecs) \div 10) > 7 * Binade((7 * ecs) \div 10)

\* last_punct > estimated_chunk_size * 0.7
PastThreshold(last_punct, c) ==
    IF ThresholdRoundsBelow(estimated_chunk_size(c))
    THEN 10 * last_punct >= 7 * estimated_chunk_size(c)
    ELSE 10 * last_punct > 7 * estimated_chunk_size(c)

\* the first marker of Puncts whose last occurrence in chunk is past the
\* threshold, as an index into Puncts; 0 when there is none
BreakPunct(chunk, c) ==
    LET ok == { k \in 1..Len(Puncts) : PastThreshold(RFind(chunk, Puncts[k]), c) }
    IN  IF ok = {} THEN 0 ELSE CHOOSE k \in ok : \A j \in ok : k <= j

\* the window cut at start: its text before strip() and its end offset
FixedWindow(t, c, st) ==
    LET end0   == st + estimated_chunk_size(c)
        chunk0 == Slice(t, st, end0)
        k      == IF end0 < Len(t) THEN BreakPunct(chunk0, c) ELSE 0
        chunk1 == IF k = 0 THEN chunk0
                  ELSE Slice(chunk0, 0, RFind(chunk0, Puncts[k]) + Len(Puncts[k]))
        end1   == IF k = 0 THEN end0 ELSE st + Len(chunk1)
    IN  [start |-> st, end |-> end1, chunk |-> chunk1]

\* start = end + 1 - config.overlap * 4
NextStart_SkipsOne(w, c) == w.end + 1 - c.overlap * CharsPerToken

\* start = end - config.overlap * 4
NextStart(w, c) == w.end - c.overlap * CharsPerToken

\* the windows the while loop cuts from start st on, at most n of them
RECURSIVE FixedWindowsFrom(_, _, _, _)
FixedWindowsFrom(t, c, st, n) ==
    IF ~(st < Len(t)) \/ n = 0 THEN <<>>
    ELSE LET w == FixedWindow(t, c, st)
         IN  <<w>> \o FixedWindowsFrom(t, c, NextStart(w, c), n - 1)

\* the whole of _fixed_size_chunk, for the configs whose loop ends
_fixed_size_chunk(t, c) ==
    LET ws == FixedWindowsFrom(t, c, 0, MaxWindows)
    IN  NonEmpty([i \in 1..Len(ws) |-> Strip(ws[i].chunk)])

(***************************************************************************)
(* ChunkingEngine._semantic_chunk.                                         *)
(***************************************************************************)
\* t.split("\n\n")
RECURSIVE SplitParas(_, _)
SplitParas(t, cur) ==
    IF t = <<>> THEN <<cur>>
    ELSE IF Len(t) >= 2 /\ t[1] = LF /\ t[2] = LF
         THEN <<cur>> \o SplitParas(SubSeq(t, 3, Len(t)), <<>>)
         ELSE SplitParas(Tail(t), Append(cur, Head(t)))

\* "\n\n".join(ps)
RECURSIVE JoinParas(_)
JoinParas(ps) ==
    IF ps = <<>> THEN <<>>
    ELSE IF Len(ps) = 1 THEN ps[1]
    ELSE ps[1] \o <<LF, LF>> \o JoinParas(Tail(ps))

RECURSIVE SumTokens(_)
SumTokens(ps) ==
    IF ps = <<>> THEN 0 ELSE estimate_tokens(Head(ps)) + SumTokens(Tail(ps))

\* nothing kept of the chunk just flushed
KeepLast_Nothing(current_chunk) == <<>>

\* current_chunk[-1:] if current_chunk else []
KeepLast(current_chunk) ==
    IF current_chunk = <<>> THEN <<>> ELSE <<current_chunk[Len(current_chunk)]>>

\* the for loop over the paragraphs and the final flush; the result is the
\* list of chunks, each as its list of paragraphs
RECURSIVE SemanticPack(_, _, _, _)
SemanticPack(paras, current_chunk, chunks, c) ==
    IF paras = <<>>
    THEN IF current_chunk # <<>> THEN Append(chunks, current_chunk) ELSE chunks
    ELSE LET para  == Head(paras)
             flush == /\ SumTokens(current_chunk) + estimate_tokens(para) > c.chunk_size
                      /\ current_chunk # <<>>
         IN  IF flush
             THEN SemanticPack(Tail(paras),
                               Append(KeepLast(current_chunk), para),
                               Append(chunks, current_chunk), c)
             ELSE SemanticPack(Tail(paras), Append(current_chunk, para), chunks, c)

SemanticGroups(t, c) == SemanticPack(SplitParas(t, <<>>), <<>>, <<>>, c)

_semantic_chunk(t, c) ==
    LET gs == SemanticGroups(t, c) IN [i \in 1..Len(gs) |-> JoinParas(gs[i])]

(***************************************************************************)
(* ChunkingEngine.chunk_text as a function of its arguments.               *)
(***************************************************************************)
chunk_text(t, c) ==
    IF ~c.enabled THEN <<t>>
    ELSE IF c.strategy = "semantic" THEN _semantic_chunk(t, c)
    ELSE _fixed_size_chunk(t, c)

(***************************************************************************)
(* State.  One call of chunk_text, followed pass by pass.                  *)
(***************************************************************************)
VARIABLES
    text,       \* the text argument of chunk_text
    config,     \* the config argument of chunk_text
    cpc,        \* where the call is: "entry", "loop", "returned"
    start,      \* _fixed_size_chunk's start
    chunks,     \* _fixed_size_chunk's chunks list (stripped windows)
    windows,    \* the windows cut so far: start, end and text before strip()
    result      \* the value chunk_text returned

chunkVars == <<text, config, cpc, start, chunks, windows, result>>

(***************************************************************************)
(* State of a Router (src/router.py) and of its route invocations.         *)
(***************************************************************************)
VARIABLES
    router_config,     \* Router.config: system_prompt and prompt template
    _providers,        \* Router._providers: the names with an adapter
    _data_sources,     \* Router._data_sources: label -> entry, or NoneRecord
    _rules,            \* Router._rules: name -> entry, or NoneRecord
    rt,                \* the locals of each route invocation
    handler_fetches,   \* per invocation, the handler.fetch calls made
    provider_calls,    \* per invocation, the provider.call calls made
    log_records        \* what the Router wrote to a log or to stdout

routerVars ==
    <<router_config, _providers, _data_sources, _rules, rt,
      handler_fetches, provider_calls, log_records>>

(***************************************************************************)
(* State of one call of ResultAggregator.aggregate.                        *)
(***************************************************************************)
VARIABLES
    agg_results,    \* the chunk_results argument
    agg_strategy,   \* the strategy argument
    agg_pc,         \* where the call is: "entry", "returned"
    agg_out         \* the value aggregate returned

aggVars == <<agg_results, agg_strategy, agg_pc, agg_out>>

vars == <<chunkVars, routerVars, aggVars>>

UsesFixed(c) == c.strategy # "semantic"

\* Python's None, where a string may stand and where a record may stand
None == "None"
NoneRecord == [none |-> TRUE]

\* the route invocations followed, and the one that is called where a single
\* call is followed
Invocations == {"A", "B"}
Callers == {"A"}
\* the labels and rule names of the tables, and those used where a single
\* binding and a single rule are followed
Labels == {"docs", "notes"}
RuleNames == {"rule", "vote"}
SoloLabels == {"docs"}
SoloRuleNames == {"rule"}

\* the locals of a route invocation that has not been called
IdleRoute ==
    [pc |-> "idle", store_label |-> None, query |-> <<>>, rule_name |-> None,
     source_type |-> None, store_config |-> NoneRecord, model_config |-> NoneRecord,
     chunking_config |-> NoneRecord, content |-> <<>>, chunks |-> <<>>,
     formatted_prompts |-> <<>>, system_prompt |-> None,
     chunk_responses |-> <<>>, total_cost |-> 0, total_tokens |-> 0,
     total_latency |-> 0, response |-> NoneRecord, error |-> NoneRecord]

\* a Router on which nothing is registered and route is not running
RouterAtRest ==
    /\ router_config = [system_prompt |-> None, prompt |-> NoneRecord]
    /\ _providers = {}
    /\ _data_sources = [l \in Labels |-> NoneRecord]
    /\ _rules = [n \in RuleNames |-> NoneRecord]
    /\ rt = [i \in Invocations |-> IdleRoute]
    /\ handler_fetches = [i \in Invocations |-> <<>>]
    /\ provider_calls = [i \in Invocations |-> <<>>]
    /\ log_records = <<>>

\* no call of aggregate is followed
AggregateAtRest ==
    /\ agg_results = <<>>
    /\ agg_strategy = "concatenate"
    /\ agg_pc = "entry"
    /\ agg_out = [type |-> "str", str |-> <<>>, num |-> 0, den |-> 1]

ChunkInit ==
    /\ RouterAtRest
    /\ AggregateAtRest
    /\ \/ text \in Texts /\ config \in Configs
       \/ text \in ProbeTexts /\ config \in ProbeConfigs
       \/ text \in ParagraphTexts /\ config \in ParagraphConfigs
    /\ cpc = "entry"
    /\ start = 0
    /\ chunks = <<>>
    /\ windows = <<>>
    /\ result = <<>>

\* chunk_text with chunking disabled returning [text.strip()]
ChunkDisabled_Strips ==
    /\ cpc = "entry"
    /\ ~config.enabled
    /\ result' = <<Strip(text)>>
    /\ cpc' = "returned"
    /\ UNCHANGED <<text, config, start, chunks, windows>>
    /\ UNCHANGED <<routerVars, aggVars>>

\* chunk_text with chunking disabled: return [text]
ChunkDisabled ==
    /\ cpc = "entry"
    /\ ~config.enabled
    /\ result' = <<text>>
    /\ cpc' = "returned"
    /\ UNCHANGED <<text, config, start, chunks, windows>>
    /\ UNCHANGED <<routerVars, aggVars>>

\* chunk_text with strategy "semantic"
ChunkSemantic ==
    /\ cpc = "entry"
    /\ config.enabled
    /\ config.strategy = "semantic"
    /\ result' = _semantic_chunk(text, config)
    /\ cpc' = "returned"
    /\ UNCHANGED <<text, config, start, chunks, windows>>
    /\ UNCHANGED <<routerVars, aggVars>>

\* chunk_text with any other strategy: enter _fixed_size_chunk
ChunkFixedEnter ==
    /\ cpc = "entry"
    /\ config.enabled
    /\ UsesFixed(config)
    /\ cpc' = "loop"
    /\ start' = 0
    /\ chunks' = <<>>
    /\ UNCHANGED <<text, config, windows, result>>
    /\ UNCHANGED <<routerVars, aggVars>>

\* one pass of the while loop
FixedPass ==
    /\ cpc = "loop"
    /\ start < Len(text)
    /\ Len(windows) < MaxWindows
    /\ LET w == FixedWindow(text, config, start)
       IN  /\ chunks' = Append(chunks, Strip(w.chunk))
           /\ windows' = Append(windows, w)
           /\ start' = NextStart(w, config)
    /\ UNCHANGED <<text, config, cpc, result>>
    /\ UNCHANGED <<routerVars, aggVars>>

\* the loop ends: return the non-empty chunks
FixedReturn ==
    /\ cpc = "loop"
    /\ ~(start < Len(text))
    /\ result' = NonEmpty(chunks)
    /\ cpc' = "returned"
    /\ UNCHANGED <<text, config, start, chunks, windows>>
    /\ UNCHANGED <<routerVars, aggVars>>

ChunkNext ==
    \/ ChunkDisabled
    \/ ChunkSemantic
    \/ ChunkFixedEnter
    \/ FixedPass
    \/ FixedReturn

SpecChunk == ChunkInit /\ [][ChunkNext]_vars

(***************************************************************************)
(* The values a Router is set up and called with.                          *)
(***************************************************************************)
\* ChunkingConfig's default chunk_size and overlap
DefaultChunkSize == 8000
DefaultOverlap == 500

\* ChunkingConfig()
DefaultChunkingConfig ==
    [enabled |-> TRUE, strategy |-> "fixed_size", chunk_size |-> DefaultChunkSize,
     overlap |-> DefaultOverlap, aggregation |-> "concatenate"]

\* the chunking_config argument of add_rule
RuleChunkings ==
    { NoneRecord,
      [enabled |-> FALSE, strategy |-> "fixed_size", chunk_size |-> 1,
       overlap |-> 0, aggregation |-> "concatenate"],
      [enabled |-> TRUE, strategy |-> "fixed_size", chunk_size |-> 1,
       overlap |-> 0, aggregation |-> "concatenate"] }

\* the model_config argument of add_rule (temperature and max_tokens are
\* handed to the provider untouched and left out)
ModelConfigs ==
    { [provider |-> "anthropic", model |-> "m", system_prompt |-> None],
      [provider |-> "anthropic", model |-> "m", system_prompt |-> ""],
      [provider |-> "anthropic", model |-> "m", system_prompt |-> "rule prompt"],
      [provider |-> "openai", model |-> "m", system_prompt |-> None] }

\* the source_type and store_config arguments of connect_data_source
SourceTypes == {"mongodb", "content"}

StoreConfigs ==
    { [variant |-> "MongoDBStoreConfig", connection_string |-> "uri", database |-> "db"],
      [variant |-> "JsonFileStoreConfig", connection_string |-> None, database |-> None] }

\* RouterConfig.prompt: a template "<prefix>{text}<suffix>"
PromptTemplates == { NoneRecord, [prefix |-> <<"Q", ":">>, suffix |-> <<"?">>] }

SystemPrompts == { None, "", "router prompt" }

BuiltinSystemPrompt == "You are a helpful assistant."

\* the texts a data source holds, and the query route is called with
RouteTexts ==
    { <<SP>>, <<"h", "i">>, <<"a", "b", "c", "d", "e", "f", "g", "h", "i">> }

Queries == { <<"k">> }

\* what handler.fetch may raise, and what provider.call may raise
FetchExceptions ==
    { [type |-> "ValueError", message |-> "MongoDB query must specify collection name"] }

ProviderExceptions ==
    { [type |-> "RuntimeError", message |-> "Anthropic API error"] }

\* what a provider may answer to a prompt: content, tokens, cost (in whole
\* units of the smallest amount billed), latency
Replies(prompt) ==
    { [content |-> prompt, tokens_used |-> Len(prompt), cost |-> 1, latency_ms |-> 3],
      [content |-> <<"4">>, tokens_used |-> 7, cost |-> 2, latency_ms |-> 1] }

(***************************************************************************)
(* The handlers of src/data_sources, as route uses them.                   *)
(***************************************************************************)
\* handler.validate_config(store_config), a truth value
validate_config(source_type, store_config) ==
    CASE source_type = "content" -> TRUE
      [] source_type = "mongodb" ->
            /\ store_config.variant = "MongoDBStoreConfig"
            /\ store_config.connection_string \notin {None, ""}
            /\ store_config.database \notin {None, ""}
      [] OTHER -> FALSE

\* the number of arguments the handler's fetch takes besides self
FetchParams(source_type) ==
    CASE source_type = "content" -> 1
      [] source_type = "mongodb" -> 2
      [] OTHER -> 0

(***************************************************************************)
(* Numbers.  float(s) is modelled for the strings made of a sign, decimal  *)
(* digits and a point (no exponent, no underscore, no "inf", no "nan":     *)
(* the contents of the model hold none of these); its value is kept as an  *)
(* exact fraction in lowest terms, so that rounding is left out.           *)
(***************************************************************************)
Digits == {"0", "1", "2", "3", "4", "5", "6", "7", "8", "9"}

DigitValue(c) ==
    CASE c = "0" -> 0 [] c = "1" -> 1 [] c = "2" -> 2 [] c = "3" -> 3
      [] c = "4" -> 4 [] c = "5" -> 5 [] c = "6" -> 6 [] c = "7" -> 7
      [] c = "8" -> 8 [] c = "9" -> 9

Abs(n) == IF n < 0 THEN -n ELSE n

RECURSIVE GCD(_, _)
GCD(a, b) == IF b = 0 THEN a ELSE GCD(b, a % b)

\* the fraction n/d (d > 0) in lowest terms
Fraction(n, d) ==
    LET g == GCD(Abs(n), d) IN [num |-> n \div g, den |-> d \div g]

RECURSIVE DecimalValue(_, _)
DecimalValue(ds, acc) ==
    IF ds = <<>> THEN acc ELSE DecimalValue(Tail(ds), 10 * acc + DigitValue(Head(ds)))

RECURSIVE PowerOfTen(_)
PowerOfTen(n) == IF n = 0 THEN 1 ELSE 10 * PowerOfTen(n - 1)

\* float(s): ok is FALSE where float raises ValueError
ParseFloat(s) ==
    LET signed == s # <<>> /\ s[1] \in {"+", "-"}
        body   == IF signed THEN Tail(s) ELSE s
        points == { i \in 1..Len(body) : body[i] = "." }
        digits == SelectSeq(body, LAMBDA c : c \in Digits)
        ok     == /\ \A i \in 1..Len(body) : body[i] \in Digits \cup {"."}
                  /\ Cardinality(points) <= 1
                  /\ digits # <<>>
        places == IF points = {} THEN 0 ELSE Len(body) - (CHOOSE i \in points : TRUE)
        value  == DecimalValue(digits, 0)
    IN  IF ~ok THEN [ok |-> FALSE, num |-> 0, den |-> 1]
        ELSE LET q == Fraction(IF signed /\ s[1] = "-" THEN -value ELSE value,
                               PowerOfTen(places))
             IN  [ok |-> TRUE, num |-> q.num, den |-> q.den]

\* sum(scores), from 0
RECURSIVE SumScores(_)
SumScores(scores) ==
    IF scores = <<>> THEN [num |-> 0, den |-> 1]
    ELSE LET h == Head(scores)
             t == SumScores(Tail(scores))
         IN  Fraction(h.num * t.den + t.num * h.den, h.den * t.den)

(***************************************************************************)
(* ResultAggregator.aggregate.  It returns a str or a float: the value is  *)
(* a record that says which.                                               *)
(***************************************************************************)
StrValue(s) == [type |-> "str", str |-> s, num |-> 0, den |-> 1]
FloatValue(q) == [type |-> "float", str |-> <<>>, num |-> q.num, den |-> q.den]

AggregationStrategies == {"concatenate", "majority_vote", "average_score"}

\* "\n\n".join(r.content for r in chunk_results)
JoinContents(chunk_results) ==
    JoinParas([i \in 1..Len(chunk_results) |-> chunk_results[i].content])

\* [r.content for r in chunk_results]
Votes_Untrimmed(chunk_results) ==
    [i \in 1..Len(chunk_results) |-> chunk_results[i].content]

\* [r.content.strip() for r in chunk_results]
Votes(chunk_results) ==
    [i \in 1..Len(chunk_results) |-> Strip(chunk_results[i].content)]

\* the keys of Counter(votes), in the order the dict holds them: first seen
\* first
RECURSIVE CounterKeys(_, _)
CounterKeys(votes, seen) ==
    IF votes = <<>> THEN seen
    ELSE IF \E k \in 1..Len(seen) : seen[k] = Head(votes)
         THEN CounterKeys(Tail(votes), seen)
         ELSE CounterKeys(Tail(votes), Append(seen, Head(votes)))

\* Counter(votes)[v]
CountOf(votes, v) == Cardinality({ i \in 1..Len(votes) : votes[i] = v })

\* most_common(1)[0][0] taking the last of the keys with the highest count
MostCommon_LastWins(votes) ==
    LET keys == CounterKeys(votes, <<>>)
        best == { k \in 1..Len(keys) :
                    \A j \in 1..Len(keys) : CountOf(votes, keys[j]) <= CountOf(votes, keys[k]) }
    IN  keys[CHOOSE k \in best : \A j \in best : j <= k]

\* counter.most_common(1)[0][0]: max over the items in dict order by count,
\* which keeps the first of the items with the highest count
MostCommon(votes) ==
    LET keys == CounterKeys(votes, <<>>)
        best == { k \in 1..Len(keys) :
                    \A j \in 1..Len(keys) : CountOf(votes, keys[j]) <= CountOf(votes, keys[k]) }
    IN  keys[CHOOSE k \in best : \A j \in best : k <= j]

\* the scores list taking an unparseable content as 0
Scores_UnparseableAsZero(chunk_results) ==
    LET parsed == [i \in 1..Len(chunk_results) |->
                      ParseFloat(Strip(chunk_results[i].content))]
    IN  [i \in 1..Len(parsed) |-> [num |-> parsed[i].num, den |-> parsed[i].den]]

\* the scores list: float(result.content.strip()) of the contents for which
\* float does not raise, in order
Scores(chunk_results) ==
    LET parsed == [i \in 1..Len(chunk_results) |->
                      ParseFloat(Strip(chunk_results[i].content))]
        kept   == SelectSeq(parsed, LAMBDA p : p.ok)
    IN  [i \in 1..Len(kept) |-> [num |-> kept[i].num, den |-> kept[i].den]]

\* sum(scores) / len(scores)
Mean(scores) ==
    LET t == SumScores(scores) IN Fraction(t.num, t.den * Len(scores))

\* the default branch returning the last content only
Concatenate_LastOnly(chunk_results) ==
    StrValue(chunk_results[Len(chunk_results)].content)

\* return "\n\n".join(r.content for r in chunk_results)
Concatenate(chunk_results) == StrValue(JoinContents(chunk_results))

\* if not chunk_results: return " "
EmptyResult_Blank == StrValue(<<SP>>)

\* if not chunk_results: return ""
EmptyResult == StrValue(<<>>)

aggregate(chunk_results, strategy) ==
    IF chunk_results = <<>> THEN EmptyResult
    ELSE IF strategy = "concatenate" THEN Concatenate(chunk_results)
    ELSE IF strategy = "majority_vote"
         THEN LET votes == Votes(chunk_results)
              IN  IF votes = <<>> THEN StrValue(<<>>) ELSE StrValue(MostCommon(votes))
    ELSE IF strategy = "average_score"
         THEN LET scores == Scores(chunk_results)
              IN  IF scores # <<>> THEN FloatValue(Mean(scores))
                  ELSE Concatenate(chunk_results)
    ELSE Concatenate(chunk_results)

(***************************************************************************)
(* Router.route, from one suspension point to the next.                    *)
(***************************************************************************)
\* b if a is None else a
PyOr_NoneOnly(a, b) == IF a = None THEN b ELSE a

\* a or b, on values of which None and the empty string are false
PyOr(a, b) == IF a \in {None, ""} THEN b ELSE a

\* the chunk put before the template instead of in its placeholder
FormatPrompt_TextFirst(template, chunk) == chunk \o template.prefix \o template.suffix

\* self.config.prompt.format(text=chunk)
FormatPrompt(template, chunk) == template.prefix \o chunk \o template.suffix

FormattedPrompts(cs) ==
    IF router_config.prompt # NoneRecord
    THEN [i \in 1..Len(cs) |-> FormatPrompt(router_config.prompt, cs[i])]
    ELSE cs

\* the record of a chunk response in RouterResponse.chunks
ChunkView(r) ==
    [content |-> r.content, tokens |-> r.tokens_used, cost |-> r.cost,
     latency_ms |-> r.latency_ms]

RECURSIVE SumOf(_, _)
SumOf(rs, f) == IF rs = <<>> THEN 0 ELSE Head(rs)[f] + SumOf(Tail(rs), f)

\* steps 4 and 5: aggregate and build the RouterResponse
BuildResponse(r) ==
    [result |-> aggregate(r.chunk_responses, r.chunking_config.aggregation),
     metadata |->
        [total_cost |-> r.total_cost, total_tokens |-> r.total_tokens,
         total_latency_ms |-> r.total_latency,
         chunks_processed |-> Len(r.chunks),
         model |-> r.model_config.model, provider |-> r.model_config.provider,
         store_label |-> r.store_label, rule_name |-> r.rule_name],
     chunks |-> [i \in 1..Len(r.chunk_responses) |-> ChunkView(r.chunk_responses[i])]]

\* an exception leaves route: what the caller gets is its type and message
Raised(r, type, message) ==
    [r EXCEPT !.pc = "failed", !.error = [type |-> type, message |-> message]]

\* the call provider.call(chunk_prompt, model_config, system_prompt) as the
\* provider sees it
ProviderCall(r, k) ==
    [prompt |-> r.formatted_prompts[k], model_config |-> r.model_config,
     system_prompt |-> r.system_prompt, outcome |-> "pending", reply |-> NoneRecord]

\* chunk_responses.insert(0, response) and the three totals
WithResponse_InsertsFirst(r, response) ==
    [r EXCEPT !.chunk_responses = <<response>> \o @,
              !.total_cost = @ + response.cost,
              !.total_tokens = @ + response.tokens_used,
              !.total_latency = @ + response.latency_ms]

\* chunk_responses.append(response), the latency total kept as a maximum
WithResponse_MaxLatency(r, response) ==
    [r EXCEPT !.chunk_responses = Append(@, response),
              !.total_cost = @ + response.cost,
              !.total_tokens = @ + response.tokens_used,
              !.total_latency = IF response.latency_ms > @ THEN response.latency_ms ELSE @]

\* chunk_responses.append(response) and the three totals
WithResponse(r, response) ==
    [r EXCEPT !.chunk_responses = Append(@, response),
              !.total_cost = @ + response.cost,
              !.total_tokens = @ + response.tokens_used,
              !.total_latency = @ + response.latency_ms]

\* route resolving the provider before it fetches
RouteToFetch_ProviderCheckedFirst(r0) ==
    IF _data_sources[r0.store_label] = NoneRecord
    THEN [r |-> Raised(r0, "ValueError", "data source not found"), fetched |-> FALSE]
    ELSE IF _rules[r0.rule_name] = NoneRecord
    THEN [r |-> Raised(r0, "ValueError", "rule not found"), fetched |-> FALSE]
    ELSE LET data_source_info == _data_sources[r0.store_label]
             rule_info == _rules[r0.rule_name]
             r1 == [r0 EXCEPT
                      !.source_type = data_source_info.type,
                      !.store_config = data_source_info.config,
                      !.model_config = rule_info.model_config,
                      !.chunking_config =
                          IF rule_info.chunking_config = NoneRecord
                          THEN DefaultChunkingConfig
                          ELSE rule_info.chunking_config]
         IN  IF r1.model_config.provider \notin _providers
             THEN [r |-> Raised(r1, "ValueError", "provider not configured"),
                   fetched |-> FALSE]
             ELSE IF ~validate_config(r1.source_type, r1.store_config)
             THEN [r |-> Raised(r1, "ValueError", "invalid config"), fetched |-> FALSE]
             ELSE IF FetchParams(r1.source_type) # 2
             THEN [r |-> Raised(r1, "TypeError", "fetch arguments"), fetched |-> FALSE]
             ELSE [r |-> [r1 EXCEPT !.pc = "fetch"], fetched |-> TRUE]

\* route looking the rule up only after handler.fetch was called
RouteToFetch_RuleCheckedLate(r0) ==
    IF _data_sources[r0.store_label] = NoneRecord
    THEN [r |-> Raised(r0, "ValueError", "data source not found"), fetched |-> FALSE]
    ELSE LET data_source_info == _data_sources[r0.store_label]
             r1 == [r0 EXCEPT !.source_type = data_source_info.type,
                              !.store_config = data_source_info.config]
         IN  IF ~validate_config(r1.source_type, r1.store_config)
             THEN [r |-> Raised(r1, "ValueError", "invalid config"), fetched |-> FALSE]
             ELSE IF FetchParams(r1.source_type) # 2
             THEN [r |-> Raised(r1, "TypeError", "fetch arguments"), fetched |-> FALSE]
             ELSE IF _rules[r0.rule_name] = NoneRecord
             THEN [r |-> Raised(r1, "ValueError", "rule not found"), fetched |-> TRUE]
             ELSE LET rule_info == _rules[r0.rule_name]
                  IN  [r |-> [r1 EXCEPT
                                !.pc = "fetch",
                                !.model_config = rule_info.model_config,
                                !.chunking_config =
                                    IF rule_info.chunking_config = NoneRecord
                                    THEN DefaultChunkingConfig
                                    ELSE rule_info.chunking_config],
                       fetched |-> TRUE]

\* route from its entry to the await of handler.fetch: the locals it leaves
\* and whether handler.fetch was called
RouteToFetch(r0) ==
    IF _data_sources[r0.store_label] = NoneRecord
    THEN [r |-> Raised(r0, "ValueError", "data source not found"), fetched |-> FALSE]
    ELSE IF _rules[r0.rule_name] = NoneRecord
    THEN [r |-> Raised(r0, "ValueError", "rule not found"), fetched |-> FALSE]
    ELSE LET data_source_info == _data_sources[r0.store_label]
             rule_info == _rules[r0.rule_name]
             r1 == [r0 EXCEPT
                      !.source_type = data_source_info.type,
                      !.store_config = data_source_info.config,
                      !.model_config = rule_info.model_config,
                      !.chunking_config =
                          IF rule_info.chunking_config = NoneRecord
                          THEN DefaultChunkingConfig
                          ELSE rule_info.chunking_config]
         IN  IF ~validate_config(r1.source_type, r1.store_config)
             THEN [r |-> Raised(r1, "ValueError", "invalid config"), fetched |-> FALSE]
             ELSE IF FetchParams(r1.source_type) # 2
             THEN [r |-> Raised(r1, "TypeError", "fetch arguments"), fetched |-> FALSE]
             ELSE [r |-> [r1 EXCEPT !.pc = "fetch"], fetched |-> TRUE]

\* route is called and runs to its first suspension point or to its end
RouteCall(i, store_label, query, rule_name) ==
    /\ rt[i].pc = "idle"
    /\ LET to == RouteToFetch([rt[i] EXCEPT !.store_label = store_label,
                                            !.query = query,
                                            !.rule_name = rule_name])
       IN  /\ rt' = [rt EXCEPT ![i] = to.r]
           /\ handler_fetches' =
                 [handler_fetches EXCEPT ![i] =
                     IF to.fetched
                     THEN Append(@, [query |-> query, config |-> to.r.store_config,
                                     outcome |-> "pending"])
                     ELSE @]
    /\ UNCHANGED <<router_config, _providers, _data_sources, _rules, provider_calls>>
    /\ UNCHANGED <<chunkVars, aggVars, log_records>>

\* handler.fetch returns content: chunk it, resolve the provider, render the
\* prompts and make the first provider call, or finish when there is none
FetchReturn(i, content) ==
    /\ rt[i].pc = "fetch"
    /\ LET r0 == [rt[i] EXCEPT !.content = content,
                               !.chunks = chunk_text(content, rt[i].chunking_config)]
           r1 == [r0 EXCEPT
                    !.system_prompt =
                        PyOr(r0.model_config.system_prompt,
                             PyOr(router_config.system_prompt, BuiltinSystemPrompt)),
                    !.formatted_prompts = FormattedPrompts(r0.chunks)]
       IN  IF r0.model_config.provider \notin _providers
           THEN /\ rt' = [rt EXCEPT ![i] = Raised(r0, "ValueError", "provider not configured")]
                /\ UNCHANGED provider_calls
           ELSE IF r1.formatted_prompts = <<>>
           THEN /\ rt' = [rt EXCEPT ![i] =
                            [r1 EXCEPT !.pc = "done", !.response = BuildResponse(r1)]]
                /\ UNCHANGED provider_calls
           ELSE /\ rt' = [rt EXCEPT ![i] = [r1 EXCEPT !.pc = "call"]]
                /\ provider_calls' =
                      [provider_calls EXCEPT ![i] = Append(@, ProviderCall(r1, 1))]
    /\ handler_fetches' =
          [handler_fetches EXCEPT ![i] = [@ EXCEPT ![Len(@)].outcome = "returned"]]
    /\ UNCHANGED <<router_config, _providers, _data_sources, _rules>>
    /\ UNCHANGED <<chunkVars, aggVars, log_records>>

\* handler.fetch raises e: the exception leaves route as it is
FetchRaise(i, e) ==
    /\ rt[i].pc = "fetch"
    /\ rt' = [rt EXCEPT ![i] = Raised(@, e.type, e.message)]
    /\ handler_fetches' =
          [handler_fetches EXCEPT ![i] = [@ EXCEPT ![Len(@)].outcome = "raised"]]
    /\ UNCHANGED <<router_config, _providers, _data_sources, _rules, provider_calls>>
    /\ UNCHANGED <<chunkVars, aggVars, log_records>>

\* provider.call returns, the responses and totals kept in one place for all
\* the invocations in flight
CallReturn_SharedResponses(i, reply) ==
    /\ rt[i].pc = "call"
    /\ LET k  == Len(rt[i].chunk_responses) + 1
           r1 == WithResponse(rt[i], reply)
           answered == [provider_calls[i] EXCEPT ![k].outcome = "returned",
                                                 ![k].reply = reply]
           others == [j \in Invocations |->
                         IF rt[j].pc = "call" THEN WithResponse(rt[j], reply) ELSE rt[j]]
       IN  /\ reply \in Replies(rt[i].formatted_prompts[k])
           /\ IF k < Len(r1.formatted_prompts)
              THEN /\ rt' = [others EXCEPT ![i] = r1]
                   /\ provider_calls' =
                         [provider_calls EXCEPT ![i] = Append(answered, ProviderCall(r1, k + 1))]
              ELSE /\ rt' = [others EXCEPT ![i] =
                               [r1 EXCEPT !.pc = "done", !.response = BuildResponse(r1)]]
                   /\ provider_calls' = [provider_calls EXCEPT ![i] = answered]
    /\ UNCHANGED <<router_config, _providers, _data_sources, _rules, handler_fetches>>
    /\ UNCHANGED <<chunkVars, aggVars, log_records>>

\* provider.call returns: record the response, then call for the next
\* prompt, or aggregate and return the RouterResponse
CallReturn(i, reply) ==
    /\ rt[i].pc = "call"
    /\ LET k  == Len(rt[i].chunk_responses) + 1
           r1 == WithResponse(rt[i], reply)
           answered == [provider_calls[i] EXCEPT ![k].outcome = "returned",
                                                 ![k].reply = reply]
       IN  /\ reply \in Replies(rt[i].formatted_prompts[k])
           /\ IF k < Len(r1.formatted_prompts)
              THEN /\ rt' = [rt EXCEPT ![i] = r1]
                   /\ provider_calls' =
                         [provider_calls EXCEPT ![i] = Append(answered, ProviderCall(r1, k + 1))]
              ELSE /\ rt' = [rt EXCEPT ![i] =
                               [r1 EXCEPT !.pc = "done", !.response = BuildResponse(r1)]]
                   /\ provider_calls' = [provider_calls EXCEPT ![i] = answered]
    /\ UNCHANGED <<router_config, _providers, _data_sources, _rules, handler_fetches>>
    /\ UNCHANGED <<chunkVars, aggVars, log_records>>

\* provider.call raises and route goes on with the next prompt
CallRaise_GoesOn(i, e) ==
    /\ rt[i].pc = "call"
    /\ LET k == Len(provider_calls[i])
           marked == [provider_calls[i] EXCEPT ![k].outcome = "raised"]
       IN  /\ k < Len(rt[i].formatted_prompts)
           /\ provider_calls' =
                 [provider_calls EXCEPT ![i] = Append(marked, ProviderCall(rt[i], k + 1))]
           /\ UNCHANGED rt
    /\ UNCHANGED <<router_config, _providers, _data_sources, _rules, handler_fetches>>
    /\ UNCHANGED <<chunkVars, aggVars, log_records>>

\* what leaves route when provider.call for the k-th prompt raises e: route
\* has no except clause, so e itself
RaisedByCall(e, k) == [type |-> e.type, message |-> e.message]

\* provider.call raises e: the exception leaves route
CallRaise(i, e) ==
    /\ rt[i].pc = "call"
    /\ LET k == Len(rt[i].chunk_responses) + 1
           x == RaisedByCall(e, k)
       IN  /\ rt' = [rt EXCEPT ![i] = Raised(@, x.type, x.message)]
           /\ provider_calls' =
                 [provider_calls EXCEPT ![i] = [@ EXCEPT ![k].outcome = "raised"]]
    /\ UNCHANGED <<router_config, _providers, _data_sources, _rules, handler_fetches>>
    /\ UNCHANGED <<chunkVars, aggVars, log_records>>

(***************************************************************************)
(* Router.add_rule and Router.connect_data_source.                         *)
(***************************************************************************)
\* add_rule replacing the whole table by the one entry
add_rule_ForgetsOthers(name, model_config, chunking_config) ==
    /\ _rules' = [n \in RuleNames |->
                    IF n = name
                    THEN [model_config |-> model_config, chunking_config |-> chunking_config]
                    ELSE NoneRecord]
    /\ _rules' # _rules
    /\ UNCHANGED <<router_config, _providers, _data_sources, rt,
                   handler_fetches, provider_calls>>
    /\ UNCHANGED <<chunkVars, aggVars, log_records>>

\* add_rule writing the new configs into the entry the running routes hold
add_rule_ReachesRunningRoutes(name, model_config, chunking_config) ==
    /\ _rules' = [_rules EXCEPT ![name] =
                    [model_config |-> model_config, chunking_config |-> chunking_config]]
    /\ _rules' # _rules
    /\ rt' = [i \in Invocations |->
                IF rt[i].pc \in {"fetch", "call"} /\ rt[i].rule_name = name
                THEN [rt[i] EXCEPT
                        !.model_config = model_config,
                        !.chunking_config =
                            IF chunking_config = NoneRecord THEN DefaultChunkingConfig
                            ELSE chunking_config]
                ELSE rt[i]]
    /\ UNCHANGED <<router_config, _providers, _data_sources,
                   handler_fetches, provider_calls>>
    /\ UNCHANGED <<chunkVars, aggVars, log_records>>

\* self._rules[name] = {"model_config": ..., "chunking_config": ...}
add_rule(name, model_config, chunking_config) ==
    /\ _rules' = [_rules EXCEPT ![name] =
                    [model_config |-> model_config, chunking_config |-> chunking_config]]
    /\ _rules' # _rules
    /\ UNCHANGED <<router_config, _providers, _data_sources, rt,
                   handler_fetches, provider_calls>>
    /\ UNCHANGED <<chunkVars, aggVars, log_records>>

connect_data_source(label, source_type, store_config) ==
    /\ _data_sources' = [_data_sources EXCEPT ![label] =
                            [type |-> source_type, config |-> store_config]]
    /\ _data_sources' # _data_sources
    /\ UNCHANGED <<router_config, _providers, _rules, rt,
                   handler_fetches, provider_calls>>
    /\ UNCHANGED <<chunkVars, aggVars, log_records>>

(***************************************************************************)
(* A Router after construction, set up and called.                         *)
(***************************************************************************)
\* the chunking state is not used by the router's specification
ChunkAtRest ==
    /\ text = <<>>
    /\ config = [enabled |-> FALSE, strategy |-> "fixed_size",
                 chunk_size |-> 1, overlap |-> 0]
    /\ cpc = "entry"
    /\ start = 0
    /\ chunks = <<>>
    /\ windows = <<>>
    /\ result = <<>>

\* Router.__init__: the config given, empty tables, one provider per api key
Init ==
    /\ ChunkAtRest
    /\ AggregateAtRest
    /\ router_config \in [system_prompt : SystemPrompts, prompt : PromptTemplates]
    /\ _providers = {"anthropic"}
    /\ _data_sources = [l \in Labels |-> NoneRecord]
    /\ _rules = [n \in RuleNames |-> NoneRecord]
    /\ rt = [i \in Invocations |-> IdleRoute]
    /\ handler_fetches = [i \in Invocations |-> <<>>]
    /\ provider_calls = [i \in Invocations |-> <<>>]
    /\ log_records = <<>>

Next ==
    \/ \E n \in SoloRuleNames, mc \in ModelConfigs, cc \in RuleChunkings :
          add_rule(n, mc, cc)
    \/ \E l \in SoloLabels, st \in SourceTypes, sc \in StoreConfigs :
          connect_data_source(l, st, sc)
    \/ \E i \in Callers, l \in SoloLabels, q \in Queries, n \in SoloRuleNames :
          RouteCall(i, l, q, n)
    \/ \E i \in Invocations, content \in RouteTexts : FetchReturn(i, content)
    \/ \E i \in Invocations, e \in FetchExceptions : FetchRaise(i, e)
    \/ \E i \in Invocations :
          \E reply \in UNION { Replies(p) : p \in { rt[i].formatted_prompts[k] :
                                  k \in 1..Len(rt[i].formatted_prompts) } } :
             CallReturn(i, reply)
    \/ \E i \in Invocations, e \in ProviderExceptions : CallRaise(i, e)

Spec == Init /\ [][Next]_vars

(***************************************************************************)
(* A Router that is set up, on which two route calls interleave at their   *)
(* awaits.                                                                 *)
(***************************************************************************)
\* the rules the two calls may name
ConcurrentRules ==
    { [model_config |-> mc, chunking_config |-> cc] :
         mc \in { m \in ModelConfigs : m.provider = "anthropic" /\ m.system_prompt = None },
         cc \in RuleChunkings }

InitConcurrent ==
    /\ ChunkAtRest
    /\ AggregateAtRest
    /\ router_config \in [system_prompt : {None}, prompt : PromptTemplates]
    /\ _providers = {"anthropic"}
    /\ _data_sources \in
          [Labels -> { [type |-> "mongodb", config |-> sc] :
                          sc \in { c \in StoreConfigs : validate_config("mongodb", c) } }]
    /\ _rules \in [RuleNames -> ConcurrentRules]
    /\ rt = [i \in Invocations |-> IdleRoute]
    /\ handler_fetches = [i \in Invocations |-> <<>>]
    /\ provider_calls = [i \in Invocations |-> <<>>]
    /\ log_records = <<>>

NextConcurrent ==
    \/ \E i \in Invocations, l \in Labels, q \in Queries, n \in RuleNames :
          RouteCall(i, l, q, n)
    \/ \E i \in Invocations, content \in RouteTexts : FetchReturn(i, content)
    \/ \E i \in Invocations, e \in FetchExceptions : FetchRaise(i, e)
    \/ \E i \in Invocations :
          \E reply \in UNION { Replies(p) : p \in { rt[i].formatted_prompts[k] :
                                  k \in 1..Len(rt[i].formatted_prompts) } } :
             CallReturn(i, reply)
    \/ \E i \in Invocations, e \in ProviderExceptions : CallRaise(i, e)

SpecConcurrent == InitConcurrent /\ [][NextConcurrent]_vars

(***************************************************************************)
(* A Router on which rules and bindings are registered, and registered     *)
(* again, under two names and two labels while route calls are made.       *)
(***************************************************************************)
RegistryModelConfigs ==
    { m \in ModelConfigs : m.provider = "anthropic" /\ m.system_prompt # "" }

RegistryStoreConfigs == { c \in StoreConfigs : validate_config("mongodb", c) }

RegistryTexts == { <<SP, "h", "i">> }

\* the rules registered: one without a system prompt and without a
\* chunking_config, one with a system prompt, chunking disabled and the
\* scores averaged
RegistryRules ==
    { [model_config |-> mc,
       chunking_config |->
          IF mc.system_prompt = None THEN NoneRecord
          ELSE [enabled |-> FALSE, strategy |-> "fixed_size", chunk_size |-> 1,
                overlap |-> 0, aggregation |-> "average_score"]] :
         mc \in RegistryModelConfigs }

InitRegistry ==
    /\ ChunkAtRest
    /\ AggregateAtRest
    /\ router_config = [system_prompt |-> None, prompt |-> NoneRecord]
    /\ _providers = {"anthropic"}
    /\ _data_sources = [l \in Labels |-> NoneRecord]
    /\ _rules = [n \in RuleNames |-> NoneRecord]
    /\ rt = [i \in Invocations |-> IdleRoute]
    /\ handler_fetches = [i \in Invocations |-> <<>>]
    /\ provider_calls = [i \in Invocations |-> <<>>]
    /\ log_records = <<>>

NextRegistry ==
    \/ \E n \in RuleNames, rule \in RegistryRules :
          add_rule(n, rule.model_config, rule.chunking_config)
    \/ \E l \in Labels, st \in SourceTypes, sc \in RegistryStoreConfigs :
          connect_data_source(l, st, sc)
    \/ \E i \in Invocations, l \in Labels, q \in Queries, n \in RuleNames :
          RouteCall(i, l, q, n)
    \/ \E i \in Invocations, content \in RegistryTexts : FetchReturn(i, content)
    \/ \E i \in Invocations, e \in FetchExceptions : FetchRaise(i, e)
    \/ \E i \in Invocations :
          \E reply \in UNION { Replies(p) : p \in { rt[i].formatted_prompts[k] :
                                  k \in 1..Len(rt[i].formatted_prompts) } } :
             CallReturn(i, reply)
    \/ \E i \in Invocations, e \in ProviderExceptions : CallRaise(i, e)

SpecRegistry == InitRegistry /\ [][NextRegistry]_vars

(***************************************************************************)
(* One call of ResultAggregator.aggregate on a list of responses.          *)
(***************************************************************************)
\* the largest number of responses aggregate is called with
MaxResults == 3

\* the contents of the responses: numbers with and without whitespace around
\* them, a sign, a point; words; strings float() does not take
Contents ==
    { <<"4">>, <<SP, "4">>, <<"4", LF>>, <<"1">>, <<"-", "1">>,
      <<"1", ".", "5">>, <<".", "5">>, <<"y">>, <<SP, "y", SP>>, <<"n">>,
      <<>>, <<SP>>, <<".">>, <<"1", SP, "4">> }

ModelResponses ==
    { [content |-> c, tokens_used |-> 1, cost |-> 1, latency_ms |-> 1] : c \in Contents }

ResultLists == UNION { [1..n -> ModelResponses] : n \in 0..MaxResults }

AggregateInit ==
    /\ ChunkAtRest
    /\ RouterAtRest
    /\ agg_results \in ResultLists
    /\ agg_strategy \in AggregationStrategies \cup {"other"}
    /\ agg_pc = "entry"
    /\ agg_out = StrValue(<<>>)

\* aggregate(chunk_results, strategy) is called and returns
Aggregate ==
    /\ agg_pc = "entry"
    /\ agg_out' = aggregate(agg_results, agg_strategy)
    /\ agg_pc' = "returned"
    /\ UNCHANGED <<agg_results, agg_strategy>>
    /\ UNCHANGED <<chunkVars, routerVars>>

AggregateNext == Aggregate

SpecAggregate == AggregateInit /\ [][AggregateNext]_vars

(***************************************************************************)
(* Reading a result back against the text.                                 *)
(***************************************************************************)
FixedFamily(c) == c.strategy \in {"fixed_size", "sliding_window"}

HasInk(t) == \E i \in 1..Len(t) : t[i] \notin Whitespace

\* the windows in order, each without the part that what came before it
\* already covers; a window that starts past the covered part leaves a hole
RECURSIVE RebuildFromWindows(_, _, _)
RebuildFromWindows(ws, acc, t) ==
    IF ws = <<>> THEN acc
    ELSE LET w  == Head(ws)
             lo == PyIndex(w.start, Len(t))
         IN  IF w.chunk = <<>> THEN RebuildFromWindows(Tail(ws), acc, t)
             ELSE IF lo > Len(acc)
                  THEN RebuildFromWindows(Tail(ws), acc \o <<"<hole>">> \o w.chunk, t)
                  ELSE RebuildFromWindows(Tail(ws),
                           acc \o Slice(w.chunk, Len(acc) - lo, Len(w.chunk)), t)

\* the returned segments in order, each after the first without its first
\* n characters (the designed overlap)
RECURSIVE RebuildFromSegments(_, _)
RebuildFromSegments(segs, n) ==
    IF segs = <<>> THEN <<>>
    ELSE Head(segs) \o
         Flatten([i \in 1..(Len(segs) - 1) |-> Slice(segs[i + 1], Min(n, Len(segs[i + 1])), Len(segs[i + 1]))])

StrippedWindows(ws) == NonEmpty([i \in 1..Len(ws) |-> Strip(ws[i].chunk)])

(***************************************************************************)
(* C1.  For every text and every valid config (chunk_size > 0 and          *)
(* 0 <= overlap < chunk_size) fixed-size chunking terminates, and each     *)
(* window starts strictly after the window before it: every pass of the    *)
(* loop leaves start greater than it found it.                             *)
(***************************************************************************)
C1_StartsStrictlyIncrease ==
    [][(ValidConfig(config) /\ cpc = "loop" /\ windows' # windows) => start' > start]_vars

(***************************************************************************)
(* C2.  With chunking enabled and a malformed config (overlap >=           *)
(* chunk_size, or chunk_size <= 0) chunk_text is rejected before any       *)
(* window is produced: no window is ever cut and nothing is returned.      *)
(***************************************************************************)
C2_MalformedRejected ==
    (config.enabled /\ ~ValidConfig(config)) =>
        (windows = <<>> /\ cpc # "returned")

C8_AtLeastOneSegment ==
    (cpc = "returned" /\ config.enabled /\ ValidConfig(config) /\ text # <<>>) =>
        Len(result) >= 1

(***************************************************************************)
(* C8, as amended.  For every valid config with chunking enabled for       *)
(* which chunk_text returns: a text with at least one non-whitespace       *)
(* character yields at least one segment; so does every text under the     *)
(* semantic strategy; a whitespace-only text under any other strategy      *)
(* yields no segment.                                                      *)
(***************************************************************************)
C8_AtLeastOneSegmentWithInk ==
    (cpc = "returned" /\ config.enabled /\ ValidConfig(config)) =>
        /\ (HasInk(text) \/ config.strategy = "semantic") => Len(result) >= 1
        /\ (~HasInk(text) /\ config.strategy # "semantic") => result = <<>>

\* a text of one letter between whitespace, cut into windows of which some
\* are dropped and one is kept
C8_Witness ==
    /\ cpc = "returned" /\ config.enabled /\ ValidConfig(config)
    /\ UsesFixed(config) /\ HasInk(text)
    /\ Len(windows) >= 2 /\ Len(result) = 1 /\ Len(result) < Len(windows)

(***************************************************************************)
(* C9.  With config.enabled false, chunk_text returns exactly <<text>>,    *)
(* for every text (the empty one included) and every strategy, chunk_size  *)
(* and overlap.                                                            *)
(***************************************************************************)
C9_DisabledReturnsText ==
    (cpc = "returned" /\ ~config.enabled) => result = <<text>>

\* a disabled call on a text longer than one window of its config
C9_Witness ==
    /\ cpc = "returned" /\ ~config.enabled
    /\ Len(text) > estimated_chunk_size(config)
    /\ ~ValidConfig(config)
    /\ result = <<text>>

(***************************************************************************)
(* C10.  For fixed_size and sliding_window with a valid config, every      *)
(* segment has at most chunk_size * 4 characters, so that its estimated    *)
(* token count at 4 characters per token is at most chunk_size.            *)
(***************************************************************************)
C10_SegmentsBounded ==
    (config.enabled /\ FixedFamily(config) /\ ValidConfig(config)) =>
        /\ \A i \in 1..Len(chunks) :
              /\ Len(chunks[i]) <= config.chunk_size * CharsPerToken
              /\ estimate_tokens(chunks[i]) <= config.chunk_size
        /\ \A i \in 1..Len(result) :
              /\ Len(result[i]) <= config.chunk_size * CharsPerToken
              /\ estimate_tokens(result[i]) <= config.chunk_size

\* a returned run with a segment that fills its window and one cut short
C10_Witness ==
    /\ cpc = "returned" /\ config.enabled /\ FixedFamily(config)
    /\ ValidConfig(config)
    /\ \E i \in 1..Len(result) : Len(result[i]) = config.chunk_size * CharsPerToken
    /\ \E i \in 1..Len(windows) :
          windows[i].end < windows[i].start + estimated_chunk_size(config)

(***************************************************************************)
(* Reading a route invocation back against the calls it made.              *)
(***************************************************************************)
NotFound(r) ==
    /\ r.pc = "failed"
    /\ r.error.type = "ValueError"
    /\ r.error.message \in {"data source not found", "rule not found"}

\* the prompt route sends for a chunk
PromptOf(chunk) ==
    IF router_config.prompt = NoneRecord THEN chunk
    ELSE router_config.prompt.prefix \o chunk \o router_config.prompt.suffix

(***************************************************************************)
(* C3.  route called with a label that is not registered, or with a rule   *)
(* name that is not registered, fails with a not-found error, and in that  *)
(* invocation handler.fetch is never called and no provider call is ever   *)
(* made.                                                                   *)
(***************************************************************************)
C3_NotFoundBeforeAnyCall ==
    [][\A i \in Invocations :
          /\ (/\ rt[i].pc = "idle"
              /\ rt'[i].pc # "idle"
              /\ \/ _data_sources[rt'[i].store_label] = NoneRecord
                 \/ _rules[rt'[i].rule_name] = NoneRecord)
             => (/\ NotFound(rt'[i])
                 /\ rt'[i].response = NoneRecord
                 /\ handler_fetches'[i] = <<>>
                 /\ provider_calls'[i] = <<>>)
          /\ NotFound(rt[i])
             => (/\ rt'[i] = rt[i]
                 /\ handler_fetches'[i] = <<>>
                 /\ provider_calls'[i] = <<>>)]_vars

\* route failed on the rule name with the label registered and valid
C3_Witness ==
    \E i \in Invocations :
       /\ NotFound(rt[i])
       /\ rt[i].error.message = "rule not found"
       /\ _data_sources[rt[i].store_label] # NoneRecord
       /\ validate_config(_data_sources[rt[i].store_label].type,
                          _data_sources[rt[i].store_label].config)
       /\ FetchParams(_data_sources[rt[i].store_label].type) = 2

(***************************************************************************)
(* C4.  Within one route invocation the first adapter failure is final:    *)
(* after a fetch that raised there is no provider call, after a provider   *)
(* call that raised there is no later provider call, the call that raised  *)
(* is not made again, and no RouterResponse is returned.                   *)
(***************************************************************************)
C4_FirstFailureIsFinal ==
    \A i \in Invocations :
       /\ Len(handler_fetches[i]) <= 1
       /\ \A k \in 1..Len(handler_fetches[i]) :
             handler_fetches[i][k].outcome = "raised" =>
                /\ rt[i].pc = "failed"
                /\ rt[i].response = NoneRecord
                /\ provider_calls[i] = <<>>
       /\ \A k \in 1..Len(provider_calls[i]) :
             /\ provider_calls[i][k].prompt = rt[i].formatted_prompts[k]
             /\ provider_calls[i][k].outcome = "raised" =>
                   /\ rt[i].pc = "failed"
                   /\ rt[i].response = NoneRecord
                   /\ k = Len(provider_calls[i])
                   /\ Len(rt[i].chunk_responses) = k - 1

\* the second of three provider calls raised
C4_Witness ==
    \E i \in Invocations :
       /\ rt[i].pc = "failed"
       /\ Len(rt[i].formatted_prompts) = 3
       /\ Len(provider_calls[i]) = 2
       /\ provider_calls[i][2].outcome = "raised"
       /\ Len(rt[i].chunk_responses) = 1

(***************************************************************************)
(* C5.  In every RouterResponse the i-th record of the chunks list is the  *)
(* result of the provider call made with the prompt of the i-th chunk the  *)
(* chunker returned, whatever the latencies of the calls.                  *)
(***************************************************************************)
C5_SegmentsInChunkOrder ==
    \A i \in Invocations :
       rt[i].pc = "done" =>
          /\ Len(rt[i].response.chunks) = Len(rt[i].chunks)
          /\ Len(provider_calls[i]) = Len(rt[i].chunks)
          /\ \A k \in 1..Len(rt[i].chunks) :
                /\ provider_calls[i][k].prompt = PromptOf(rt[i].chunks[k])
                /\ provider_calls[i][k].outcome = "returned"
                /\ rt[i].response.chunks[k] = ChunkView(provider_calls[i][k].reply)

\* a response of three segments whose calls took different times, the first
\* the longest
C5_Witness ==
    \E i \in Invocations :
       /\ rt[i].pc = "done"
       /\ Len(rt[i].response.chunks) = 3
       /\ rt[i].response.chunks[1].latency_ms > rt[i].response.chunks[2].latency_ms
       /\ rt[i].response.chunks[1].content # rt[i].response.chunks[3].content

(***************************************************************************)
(* C6.  On every successful route the totals of tokens, cost and latency   *)
(* in the metadata are the sums over the chunks list of the same response, *)
(* and chunks_processed is the length of the chunks list, the number of    *)
(* chunks the chunker returned and the number of provider calls made.      *)
(***************************************************************************)
C6_TotalsAreSums ==
    \A i \in Invocations :
       rt[i].pc = "done" =>
          LET resp == rt[i].response
          IN  /\ resp.metadata.total_tokens = SumOf(resp.chunks, "tokens")
              /\ resp.metadata.total_cost = SumOf(resp.chunks, "cost")
              /\ resp.metadata.total_latency_ms = SumOf(resp.chunks, "latency_ms")
              /\ resp.metadata.chunks_processed = Len(resp.chunks)
              /\ resp.metadata.chunks_processed = Len(rt[i].chunks)
              /\ resp.metadata.chunks_processed = Len(provider_calls[i])
              /\ rt[i].chunks = chunk_text(rt[i].content, rt[i].chunking_config)

\* a response of three segments with unequal latencies
C6_Witness ==
    \E i \in Invocations :
       /\ rt[i].pc = "done"
       /\ Len(rt[i].response.chunks) = 3
       /\ rt[i].response.chunks[1].latency_ms # rt[i].response.chunks[2].latency_ms
       /\ rt[i].response.metadata.total_tokens > 0

(***************************************************************************)
(* Reading a binding back against the source kind it is registered for.    *)
(***************************************************************************)
\* the store config class a source kind is documented to take
\* (connect_data_source's docstring); no class of StoreConfig is content's
ExpectedVariant(source_type) ==
    CASE source_type = "mongodb" -> "MongoDBStoreConfig"
      [] source_type = "json_file" -> "JsonFileStoreConfig"
      [] OTHER -> None

InvalidConfig(r) ==
    /\ r.pc = "failed"
    /\ r.error = [type |-> "ValueError", message |-> "invalid config"]

(***************************************************************************)
(* C11.  If the store config registered for a binding is not the variant   *)
(* its source kind expects, route fails with an invalid-config error       *)
(* before handler.fetch is called and before any provider call, for every  *)
(* source kind.                                                            *)
(***************************************************************************)
C11_MismatchRejectedBeforeFetch ==
    \A i \in Invocations :
       (/\ rt[i].source_type # None
        /\ rt[i].store_config.variant # ExpectedVariant(rt[i].source_type))
       => (/\ InvalidConfig(rt[i])
           /\ handler_fetches[i] = <<>>
           /\ provider_calls[i] = <<>>)

(***************************************************************************)
(* Reading a returned aggregate back against the responses.                *)
(***************************************************************************)
\* the contents of the responses, trimmed
Trimmed(rs) == [i \in 1..Len(rs) |-> Strip(rs[i].content)]

Occurrences(vs, v) == Cardinality({ i \in 1..Len(vs) : vs[i] = v })

FirstOccurrence(vs, v) ==
    CHOOSE i \in 1..Len(vs) : vs[i] = v /\ \A j \in 1..(i - 1) : vs[j] # v

\* the responses whose trimmed content float() takes
Parseable(rs) == { i \in 1..Len(rs) : ParseFloat(Strip(rs[i].content)).ok }

\* the product of the denominators of the parsed contents
RECURSIVE CommonDenominator(_)
CommonDenominator(rs) ==
    IF rs = <<>> THEN 1
    ELSE LET q == ParseFloat(Strip(Head(rs).content))
         IN  (IF q.ok THEN q.den ELSE 1) * CommonDenominator(Tail(rs))

\* the sum of the parsed contents, in units of 1/d
RECURSIVE SumInUnits(_, _)
SumInUnits(rs, d) ==
    IF rs = <<>> THEN 0
    ELSE LET q == ParseFloat(Strip(Head(rs).content))
         IN  (IF q.ok THEN q.num * (d \div q.den) ELSE 0) + SumInUnits(Tail(rs), d)

\* the contents in order with a blank line before each but the first
WithBlankLines(rs) ==
    Flatten([i \in 1..Len(rs) |->
                IF i = 1 THEN rs[i].content ELSE <<LF, LF>> \o rs[i].content])

(***************************************************************************)
(* C12.  aggregate(results, majority_vote) on a non-empty list returns the *)
(* trimmed content with the highest number of occurrences among the        *)
(* trimmed contents, and of several with that number the one that occurs   *)
(* first in the list.                                                      *)
(***************************************************************************)
C12_MostFrequentFirstSeen ==
    (agg_pc = "returned" /\ agg_strategy = "majority_vote" /\ agg_results # <<>>) =>
        LET vs == Trimmed(agg_results)
        IN  /\ agg_out.type = "str"
            /\ \E k \in 1..Len(vs) : vs[k] = agg_out.str
            /\ \A j \in 1..Len(vs) :
                  /\ Occurrences(vs, vs[j]) <= Occurrences(vs, agg_out.str)
                  /\ Occurrences(vs, vs[j]) = Occurrences(vs, agg_out.str)
                        => FirstOccurrence(vs, agg_out.str) <= j

\* three responses, two values tied at the highest count, the first one
\* returned without the whitespace it came with
C12_Witness ==
    /\ agg_pc = "returned" /\ agg_strategy = "majority_vote"
    /\ Len(agg_results) = 3
    /\ agg_results[1].content # agg_out.str
    /\ Strip(agg_results[1].content) = agg_out.str
    /\ \E j \in 2..3 :
          /\ Strip(agg_results[j].content) # agg_out.str
          /\ Occurrences(Trimmed(agg_results), Strip(agg_results[j].content))
                = Occurrences(Trimmed(agg_results), agg_out.str)

(***************************************************************************)
(* C13.  aggregate(results, average_score) on a non-empty list returns the *)
(* arithmetic mean of exactly the contents that parse as numbers after     *)
(* trimming (the others count neither in the sum nor in the number of      *)
(* values); when none parses it returns what aggregate(results,            *)
(* concatenate) returns.                                                   *)
(***************************************************************************)
C13_MeanOfParseable ==
    (agg_pc = "returned" /\ agg_strategy = "average_score" /\ agg_results # <<>>) =>
        LET n == Cardinality(Parseable(agg_results))
            d == CommonDenominator(agg_results)
        IN  IF n = 0
            THEN agg_out = aggregate(agg_results, "concatenate")
            ELSE /\ agg_out.type = "float"
                 /\ agg_out.den > 0
                 /\ agg_out.num * n * d = SumInUnits(agg_results, d) * agg_out.den

\* three responses, one of them not a number, one a number between
\* whitespace, and a mean that is not a whole number
C13_Witness ==
    /\ agg_pc = "returned" /\ agg_strategy = "average_score"
    /\ Len(agg_results) = 3
    /\ Cardinality(Parseable(agg_results)) = 2
    /\ \E i \in Parseable(agg_results) :
          Strip(agg_results[i].content) # agg_results[i].content
    /\ agg_out.type = "float" /\ agg_out.den = 2

(***************************************************************************)
(* C14.  For strategy concatenate, and for every strategy that is none of  *)
(* the three recognised ones, aggregate on a non-empty list returns the    *)
(* contents in input order with a blank line between consecutive ones.     *)
(***************************************************************************)
C14_ConcatenateJoins ==
    (/\ agg_pc = "returned" /\ agg_results # <<>>
     /\ agg_strategy \notin {"majority_vote", "average_score"}) =>
        /\ agg_out.type = "str"
        /\ agg_out.str = WithBlankLines(agg_results)

\* an unrecognised strategy on three different contents, one of them empty
C14_Witness ==
    /\ agg_pc = "returned" /\ agg_strategy \notin AggregationStrategies
    /\ Len(agg_results) = 3
    /\ agg_results[1].content # agg_results[2].content
    /\ agg_results[2].content = <<>>
    /\ agg_results[3].content # agg_results[1].content
    /\ Len(agg_out.str) = Len(agg_results[1].content) + Len(agg_results[3].content) + 4

(***************************************************************************)
(* C15.  For a single response r (its content with leading or trailing     *)
(* whitespace included) aggregate([r], concatenate) and aggregate([r],     *)
(* majority_vote) both return exactly r.content, and aggregate([r],        *)
(* average_score) returns the number r.content parses to when it parses.   *)
(***************************************************************************)
C15_SingletonReturnsContent ==
    (agg_pc = "returned" /\ Len(agg_results) = 1) =>
        LET c == agg_results[1].content
            q == ParseFloat(Strip(c))
        IN  /\ agg_strategy \in {"concatenate", "majority_vote"} => agg_out = StrValue(c)
            /\ (agg_strategy = "average_score" /\ q.ok) => agg_out = FloatValue(q)

(***************************************************************************)
(* C15, as amended.  For a single response r, aggregate([r], concatenate)  *)
(* returns exactly r.content; aggregate([r], majority_vote) returns        *)
(* r.content without its leading and trailing whitespace (r.content        *)
(* itself when it has none); aggregate([r], average_score) returns the     *)
(* number the trimmed r.content parses to, and r.content when it does not  *)
(* parse.                                                                  *)
(***************************************************************************)
C15_SingletonReturnsTrimmedVote ==
    (agg_pc = "returned" /\ Len(agg_results) = 1) =>
        LET c == agg_results[1].content
            q == ParseFloat(Strip(c))
        IN  /\ agg_strategy = "concatenate" => agg_out = StrValue(c)
            /\ agg_strategy = "majority_vote" => agg_out = StrValue(Strip(c))
            /\ (agg_strategy = "average_score" /\ q.ok) => agg_out = FloatValue(q)
            /\ (agg_strategy = "average_score" /\ ~q.ok) => agg_out = StrValue(c)

\* a single vote that comes with whitespace around a word
C15_Witness ==
    /\ agg_pc = "returned" /\ Len(agg_results) = 1
    /\ agg_strategy = "majority_vote"
    /\ agg_out.str # agg_results[1].content
    /\ agg_out.str # <<>>

(***************************************************************************)
(* C16.  aggregate on an empty list returns the empty string, for every    *)
(* strategy, recognised or not.                                            *)
(***************************************************************************)
C16_EmptyListGivesEmptyString ==
    (agg_pc = "returned" /\ agg_results = <<>>) => agg_out = StrValue(<<>>)

\* the empty list under average_score
C16_Witness ==
    /\ agg_pc = "returned" /\ agg_results = <<>>
    /\ agg_strategy = "average_score"
    /\ agg_out.type = "str" /\ agg_out.str = <<>>

(***************************************************************************)
(* Reading an invocation back against its own fetch and its own calls.     *)
(***************************************************************************)
\* the replies the provider gave to the calls of invocation i, in call order
OwnReplies(i) ==
    LET returned == SelectSeq(provider_calls[i], LAMBDA c : c.outcome = "returned")
    IN  [k \in 1..Len(returned) |-> returned[k].reply]

\* the response of a route run alone on the content invocation i fetched,
\* with the replies its own calls got
ResponseAlone(i) ==
    LET replies == OwnReplies(i)
    IN  [result |-> aggregate(replies, rt[i].chunking_config.aggregation),
         metadata |->
            [total_cost |-> SumOf(replies, "cost"),
             total_tokens |-> SumOf(replies, "tokens_used"),
             total_latency_ms |-> SumOf(replies, "latency_ms"),
             chunks_processed |-> Len(chunk_text(rt[i].content, rt[i].chunking_config)),
             model |-> rt[i].model_config.model,
             provider |-> rt[i].model_config.provider,
             store_label |-> rt[i].store_label, rule_name |-> rt[i].rule_name],
         chunks |-> [k \in 1..Len(replies) |-> ChunkView(replies[k])]]

(***************************************************************************)
(* C17.  Two route invocations on the same Router that interleave at       *)
(* their awaits (the fetch and each provider call) each return the segment *)
(* list, the totals and the result of a run alone: the responses and the   *)
(* totals an invocation holds are those of its own calls, never of the     *)
(* other invocation's.                                                     *)
(***************************************************************************)
C17_InvocationsKeepToThemselves ==
    \A i \in Invocations :
       /\ rt[i].chunk_responses = OwnReplies(i)
       /\ rt[i].total_tokens = SumOf(OwnReplies(i), "tokens_used")
       /\ rt[i].total_cost = SumOf(OwnReplies(i), "cost")
       /\ rt[i].total_latency = SumOf(OwnReplies(i), "latency_ms")
       /\ \A k \in 1..Len(provider_calls[i]) :
             /\ provider_calls[i][k].prompt =
                   PromptOf(chunk_text(rt[i].content, rt[i].chunking_config)[k])
             /\ provider_calls[i][k].outcome = "returned" =>
                   provider_calls[i][k].reply \in Replies(provider_calls[i][k].prompt)
       /\ rt[i].pc = "done" => rt[i].response = ResponseAlone(i)

\* both invocations are between two provider calls, with different
\* responses behind them
C17_Witness ==
    /\ rt["A"].pc = "call" /\ rt["B"].pc = "call"
    /\ Len(rt["A"].chunk_responses) = 2
    /\ Len(rt["B"].chunk_responses) = 1
    /\ rt["A"].chunk_responses[1] # rt["B"].chunk_responses[1]

(***************************************************************************)
(* Reading a failure back against the stage it happened in.                *)
(***************************************************************************)
\* what route raises in each of its stages
ResolveErrors ==
    { [type |-> "ValueError", message |-> "data source not found"],
      [type |-> "ValueError", message |-> "rule not found"] }

ValidateErrors == { [type |-> "ValueError", message |-> "invalid config"] }

FetchErrors == FetchExceptions \cup { [type |-> "TypeError", message |-> "fetch arguments"] }

DispatchErrors ==
    ProviderExceptions \cup { [type |-> "ValueError", message |-> "provider not configured"] }

StageErrors == <<ResolveErrors, ValidateErrors, FetchErrors, DispatchErrors>>

\* invocation i failed in the provider call for its k-th segment
FailedAtSegment(i, k) ==
    /\ rt[i].pc = "failed"
    /\ Len(provider_calls[i]) = k
    /\ provider_calls[i][k].outcome = "raised"

(***************************************************************************)
(* C18.  Every failed route invocation ends with an error that tells which *)
(* stage failed (resolve, validate, fetch or dispatch): the error is one   *)
(* that only one stage gives; and for a failed provider call it tells the  *)
(* index of the segment: it is not the error a failure of the call for     *)
(* another segment gives.                                                  *)
(***************************************************************************)
C18_ErrorNamesStageAndSegment ==
    \A i \in Invocations :
       rt[i].pc = "failed" =>
          /\ Cardinality({ s \in 1..Len(StageErrors) : rt[i].error \in StageErrors[s] }) = 1
          /\ \A k \in 1..Len(provider_calls[i]) :
                FailedAtSegment(i, k) =>
                   \A k2 \in (1..Len(rt[i].formatted_prompts)) \ {k} :
                      \A e \in ProviderExceptions : RaisedByCall(e, k2) # rt[i].error

(***************************************************************************)
(* C19.  When the provider call for segment k (k >= 1, counted from 0)     *)
(* fails, the tokens and the cost of the k segments completed before it in *)
(* that invocation are written to a log, although no RouterResponse is     *)
(* returned.                                                               *)
(***************************************************************************)
C19_PartialSpendLogged ==
    \A i \in Invocations :
       \A k \in 2..Len(provider_calls[i]) :
          FailedAtSegment(i, k) =>
             \E n \in 1..Len(log_records) :
                /\ log_records[n].tokens = SumOf(OwnReplies(i), "tokens_used")
                /\ log_records[n].cost = SumOf(OwnReplies(i), "cost")

(***************************************************************************)
(* Reading a started route back against the tables.                        *)
(***************************************************************************)
\* invocation i got past the two lookups
Resolved(r) == r.pc # "idle" /\ ~NotFound(r)

\* the locals of r are those route takes from the entries rule and source
TakenFrom(r, rule, source) ==
    /\ rule # NoneRecord
    /\ source # NoneRecord
    /\ r.model_config = rule.model_config
    /\ r.chunking_config =
          (IF rule.chunking_config = NoneRecord THEN DefaultChunkingConfig
           ELSE rule.chunking_config)
    /\ r.source_type = source.type
    /\ r.store_config = source.config

(***************************************************************************)
(* C20.  Registering a rule (a binding) under a name (a label) that is     *)
(* already registered replaces that entry, and every route started         *)
(* afterwards uses the latest registration; a registration leaves every    *)
(* other rule and every binding (every other binding and every rule) as    *)
(* they were, and makes no fetch and no provider call.                     *)
(***************************************************************************)
C20_RegistrationReplacesOneEntry ==
    [][/\ _rules' # _rules =>
            /\ \E n \in RuleNames :
                  /\ _rules'[n] # NoneRecord
                  /\ \A m \in RuleNames \ {n} : _rules'[m] = _rules[m]
            /\ UNCHANGED <<_data_sources, rt, handler_fetches, provider_calls>>
       /\ _data_sources' # _data_sources =>
            /\ \E l \in Labels :
                  /\ _data_sources'[l] # NoneRecord
                  /\ \A m \in Labels \ {l} : _data_sources'[m] = _data_sources[m]
            /\ UNCHANGED <<_rules, rt, handler_fetches, provider_calls>>
       /\ \A i \in Invocations :
             (rt[i].pc = "idle" /\ Resolved(rt'[i])) =>
                TakenFrom(rt'[i], _rules[rt'[i].rule_name],
                          _data_sources[rt'[i].store_label])]_vars

\* two routes under the same rule name and label, started on either side of
\* a registration of that name and of that label: they hold different
\* entries, one of them the entries now in the tables, and every other
\* entry of both tables is registered
C20_Witness ==
    /\ Resolved(rt["A"]) /\ Resolved(rt["B"])
    /\ rt["A"].rule_name = rt["B"].rule_name
    /\ rt["A"].store_label = rt["B"].store_label
    /\ rt["A"].model_config # rt["B"].model_config
    /\ rt["A"].source_type # rt["B"].source_type
    /\ TakenFrom(rt["B"], _rules[rt["B"].rule_name], _data_sources[rt["B"].store_label])
    /\ \A n \in RuleNames : _rules[n] # NoneRecord
    /\ \A l \in Labels : _data_sources[l] # NoneRecord

(***************************************************************************)
(* Reading the calls of an invocation back against the configuration.      *)
(***************************************************************************)
Empty(p) == p = None \/ p = ""

\* the first non-empty of the rule's system prompt, the Router's, the
\* built-in one
EffectiveSystemPrompt(model_config) ==
    IF ~Empty(model_config.system_prompt) THEN model_config.system_prompt
    ELSE IF ~Empty(router_config.system_prompt) THEN router_config.system_prompt
    ELSE BuiltinSystemPrompt

(***************************************************************************)
(* C21.  The system prompt passed to every provider call of a route        *)
(* invocation is the first non-empty of: the system prompt of the rule's   *)
(* model config, the system prompt of the Router's config, the built-in    *)
(* default; it is the same for all the segments of the invocation.         *)
(***************************************************************************)
C21_SystemPromptByPrecedence ==
    \A i \in Invocations :
       \A k \in 1..Len(provider_calls[i]) :
          /\ provider_calls[i][k].system_prompt =
                EffectiveSystemPrompt(rt[i].model_config)
          /\ provider_calls[i][k].system_prompt = provider_calls[i][1].system_prompt
          /\ ~Empty(provider_calls[i][k].system_prompt)

\* three calls under a rule whose system prompt is the empty string, on a
\* Router that has one
C21_Witness ==
    \E i \in Invocations :
       /\ Len(provider_calls[i]) = 3
       /\ rt[i].model_config.system_prompt = ""
       /\ router_config.system_prompt = "router prompt"
       /\ provider_calls[i][3].system_prompt = "router prompt"

(***************************************************************************)
(* C22.  With a prompt template configured, the prompt sent for the i-th   *)
(* segment is the template with its placeholder replaced by the text of    *)
(* the i-th segment; with none configured it is the text of the i-th       *)
(* segment as it is; either way there is exactly one prompt per segment,   *)
(* in segment order.                                                       *)
(***************************************************************************)
C22_OnePromptPerSegment ==
    \A i \in Invocations :
       (rt[i].pc \in {"call", "done"} \/ provider_calls[i] # <<>>) =>
          /\ Len(rt[i].formatted_prompts) = Len(rt[i].chunks)
          /\ Len(provider_calls[i]) <= Len(rt[i].chunks)
          /\ rt[i].pc = "done" => Len(provider_calls[i]) = Len(rt[i].chunks)
          /\ \A k \in 1..Len(rt[i].chunks) :
                /\ rt[i].formatted_prompts[k] =
                      (IF router_config.prompt = NoneRecord THEN rt[i].chunks[k]
                       ELSE router_config.prompt.prefix \o rt[i].chunks[k]
                               \o router_config.prompt.suffix)
                /\ k <= Len(provider_calls[i]) =>
                      provider_calls[i][k].prompt = rt[i].formatted_prompts[k]

\* three segments sent through a template, each prompt longer than its
\* segment and the second different from the first
C22_Witness ==
    \E i \in Invocations :
       /\ rt[i].pc = "done"
       /\ router_config.prompt # NoneRecord
       /\ Len(provider_calls[i]) = 3
       /\ provider_calls[i][2].prompt # provider_calls[i][1].prompt
       /\ Len(provider_calls[i][2].prompt) = Len(rt[i].chunks[2]) + 3

(***************************************************************************)
(* C23.  With a binding of kind content, a rule with chunking disabled and *)
(* aggregation concatenate, no prompt template and a provider that echoes  *)
(* its prompt, route succeeds: its result is the query text and its        *)
(* segment count is 1.                                                     *)
(***************************************************************************)
\* every answer the provider gave so far is the prompt it was sent
ProviderEchoes(i) ==
    \A k \in 1..Len(provider_calls[i]) :
       /\ provider_calls[i][k].outcome # "raised"
       /\ provider_calls[i][k].outcome = "returned" =>
             provider_calls[i][k].reply.content = provider_calls[i][k].prompt

C23_ContentQueryEchoedBack ==
    \A i \in Invocations :
       (/\ rt[i].pc \in {"failed", "done"}
        /\ rt[i].source_type = "content"
        /\ ~rt[i].chunking_config.enabled
        /\ rt[i].chunking_config.aggregation = "concatenate"
        /\ router_config.prompt = NoneRecord
        /\ rt[i].model_config.provider \in _providers
        /\ ProviderEchoes(i))
       => (/\ rt[i].pc = "done"
           /\ rt[i].response.result = StrValue(rt[i].query)
           /\ rt[i].response.metadata.chunks_processed = 1)

(***************************************************************************)
(* C24.  In fixed_size chunking, a window whose right edge lies before the *)
(* end of the text is cut just after the last occurrence of the            *)
(* highest-priority marker (". ", "! ", "? ", blank line, newline) whose   *)
(* last occurrence lies strictly beyond 70% of the window size; a marker   *)
(* of lower priority is used only when no marker of higher priority lies   *)
(* beyond 70%; a window with no such marker, or one that reaches the end   *)
(* of the text, is not trimmed.                                            *)
(***************************************************************************)
\* the markers whose last occurrence in the window lies strictly beyond 70%
\* of the window size
Qualifying(full, c) ==
    { k \in 1..Len(Puncts) : 10 * RFind(full, Puncts[k]) > 7 * estimated_chunk_size(c) }

C24_CutAtLastQualifyingMarker ==
    UsesFixed(config) =>
       \A j \in 1..Len(windows) :
          LET w    == windows[j]
              edge == w.start + estimated_chunk_size(config)
              full == Slice(text, w.start, edge)
              q    == Qualifying(full, config)
          IN  IF edge < Len(text) /\ q # {}
              THEN LET k == CHOOSE k \in q : \A h \in q : k <= h
                   IN  /\ w.chunk = Slice(full, 0, RFind(full, Puncts[k]) + Len(Puncts[k]))
                       /\ w.end = w.start + Len(w.chunk)
              ELSE /\ w.chunk = full
                   /\ w.end = edge

(***************************************************************************)
(* C25.  In semantic chunking, every returned segment made of two or more  *)
(* paragraphs has a total estimated paragraph token count of at most       *)
(* chunk_size; only a segment that is one oversized paragraph may exceed   *)
(* chunk_size.                                                             *)
(***************************************************************************)
SemanticReturned == cpc = "returned" /\ config.enabled /\ config.strategy = "semantic"

C25_PackedSegmentsWithinChunkSize ==
    (SemanticReturned /\ ValidConfig(config)) =>
       LET gs == SemanticGroups(text, config)
       IN  /\ result = [j \in 1..Len(gs) |-> JoinParas(gs[j])]
           /\ \A j \in 1..Len(gs) :
                 Len(gs[j]) >= 2 => SumTokens(gs[j]) <= config.chunk_size

(***************************************************************************)
(* C26.  In semantic chunking, every segment after the first begins with   *)
(* the last paragraph of the segment before it, and the paragraphs of the  *)
(* first segment followed by those of each later segment without its first *)
(* one are exactly the paragraphs of the input, in order.                  *)
(***************************************************************************)
\* the paragraphs of the j-th returned segment
ParagraphsOf(j) == SplitParas(result[j], <<>>)

\* the paragraphs of the segments from the j-th on, a later segment without
\* the paragraph it begins with
RECURSIVE Uncarried(_)
Uncarried(j) ==
    IF j > Len(result) THEN <<>>
    ELSE (IF j = 1 THEN ParagraphsOf(j) ELSE Tail(ParagraphsOf(j))) \o Uncarried(j + 1)

C26_CarriesOneParagraph ==
    SemanticReturned =>
       /\ \A j \in 2..Len(result) :
             ParagraphsOf(j)[1] = ParagraphsOf(j - 1)[Len(ParagraphsOf(j - 1))]
       /\ Uncarried(1) = SplitParas(text, <<>>)

\* three segments, the middle one carrying a paragraph in and another out
C26_Witness ==
    /\ SemanticReturned
    /\ Len(result) >= 3
    /\ Len(ParagraphsOf(2)) >= 2
    /\ ParagraphsOf(2)[1] # ParagraphsOf(3)[1]
    /\ ParagraphsOf(3)[1] # <<>>

(***************************************************************************)
(* A Router whose rules name an aggregation strategy, by its string or by  *)
(* the member of the enum, and split the fetched text into segments.       *)
(***************************************************************************)
\* class AggregationStrategy(Enum): a member is equal to itself only, never
\* to the string that is its value
AggregationStrategy ==
    [CONCATENATE   |-> "AggregationStrategy.CONCATENATE",
     MAJORITY_VOTE |-> "AggregationStrategy.MAJORITY_VOTE",
     AVERAGE_SCORE |-> "AggregationStrategy.AVERAGE_SCORE"]

\* member.value
EnumValue(member) ==
    CASE member = AggregationStrategy.CONCATENATE -> "concatenate"
      [] member = AggregationStrategy.MAJORITY_VOTE -> "majority_vote"
      [] member = AggregationStrategy.AVERAGE_SCORE -> "average_score"

\* what the aggregation field of a ChunkingConfig may hold
AggregationValues ==
    AggregationStrategies \cup { AggregationStrategy[n] : n \in DOMAIN AggregationStrategy }

StrategyChunkings ==
    { [enabled |-> TRUE, strategy |-> "fixed_size", chunk_size |-> 1,
       overlap |-> 0, aggregation |-> a] : a \in AggregationValues }

StrategyModelConfigs ==
    { m \in ModelConfigs : m.provider = "anthropic" /\ m.system_prompt = None }

InitStrategy ==
    /\ ChunkAtRest
    /\ AggregateAtRest
    /\ router_config = [system_prompt |-> None, prompt |-> NoneRecord]
    /\ _providers = {"anthropic"}
    /\ _data_sources \in
          [Labels -> { [type |-> "mongodb", config |-> sc] :
                          sc \in { c \in StoreConfigs : validate_config("mongodb", c) } }]
    /\ _rules = [n \in RuleNames |-> NoneRecord]
    /\ rt = [i \in Invocations |-> IdleRoute]
    /\ handler_fetches = [i \in Invocations |-> <<>>]
    /\ provider_calls = [i \in Invocations |-> <<>>]
    /\ log_records = <<>>

NextStrategy ==
    \/ \E n \in SoloRuleNames, mc \in StrategyModelConfigs, cc \in StrategyChunkings :
          add_rule(n, mc, cc)
    \/ \E i \in Callers, l \in SoloLabels, q \in Queries, n \in SoloRuleNames :
          RouteCall(i, l, q, n)
    \/ \E i \in Invocations, content \in RouteTexts : FetchReturn(i, content)
    \/ \E i \in Invocations, e \in FetchExceptions : FetchRaise(i, e)
    \/ \E i \in Invocations :
          \E reply \in UNION { Replies(p) : p \in { rt[i].formatted_prompts[k] :
                                  k \in 1..Len(rt[i].formatted_prompts) } } :
             CallReturn(i, reply)
    \/ \E i \in Invocations, e \in ProviderExceptions : CallRaise(i, e)

SpecStrategy == InitStrategy /\ [][NextStrategy]_vars

(***************************************************************************)
(* C27.  For a rule whose chunking config selects majority_vote or         *)
(* average_score, by the string name or by the AggregationStrategy member, *)
(* the result route returns is that strategy applied to the ordered        *)
(* segment results, not the concatenate fallback.                          *)
(***************************************************************************)
\* the strategy an aggregation value names
StrategyNamed(a) == IF a \in AggregationStrategies THEN a ELSE EnumValue(a)

C27_NamedStrategyApplied ==
    \A i \in Invocations :
       (/\ rt[i].pc = "done"
        /\ StrategyNamed(rt[i].chunking_config.aggregation)
              \in {"majority_vote", "average_score"})
       => rt[i].response.result =
             aggregate(rt[i].chunk_responses,
                       StrategyNamed(rt[i].chunking_config.aggregation))

(***************************************************************************)
(* C28.  In fixed_size chunking with a valid config, the first window      *)
(* whose right edge reaches or passes the end of the text is the last      *)
(* window generated: no later segment is produced whose text lies wholly   *)
(* inside the window before it.                                            *)
(***************************************************************************)
C28_WindowReachingEndIsLast ==
    (config.enabled /\ config.strategy = "fixed_size" /\ ValidConfig(config)) =>
       \A j \in 1..(Len(windows) - 1) :
          windows[j].end < Len(text)

(***************************************************************************)
(* C29.  If the provider named by the rule's model config has no           *)
(* configured adapter, route fails without any provider call being made,   *)
(* and it fails so only after handler.fetch has returned and the fetched   *)
(* text has been chunked.                                                  *)
(***************************************************************************)
ProviderNotConfigured(r) ==
    /\ r.pc = "failed"
    /\ r.error = [type |-> "ValueError", message |-> "provider not configured"]

\* the invocation resolved a rule whose provider has no adapter
NamesMissingProvider(i) ==
    /\ rt[i].model_config # NoneRecord
    /\ rt[i].model_config.provider \notin _providers

C29_MissingProviderFailsAfterChunking ==
    \A i \in Invocations :
       /\ NamesMissingProvider(i) =>
             /\ provider_calls[i] = <<>>
             /\ rt[i].pc \in {"fetch", "failed"}
             /\ rt[i].response = NoneRecord
             /\ (Len(handler_fetches[i]) = 1 /\ handler_fetches[i][1].outcome = "returned")
                   => ProviderNotConfigured(rt[i])
       /\ ProviderNotConfigured(rt[i]) =>
             /\ NamesMissingProvider(i)
             /\ Len(handler_fetches[i]) = 1
             /\ handler_fetches[i][1].outcome = "returned"
             /\ rt[i].chunks = chunk_text(rt[i].content, rt[i].chunking_config)
             /\ rt[i].formatted_prompts = <<>>

\* the failure came after a fetched text was cut into three segments
C29_Witness ==
    \E i \in Invocations :
       /\ ProviderNotConfigured(rt[i])
       /\ Len(rt[i].chunks) = 3
       /\ handler_fetches[i][1].outcome = "returned"
       /\ provider_calls[i] = <<>>

(***************************************************************************)
(* C30.  A route invocation uses the rule and binding entries that were    *)
(* registered when it started: registering the same rule name or binding   *)
(* label again while the invocation is suspended in fetch or in a provider *)
(* call changes neither the model config, the chunking config, the         *)
(* aggregation strategy nor the store config the rest of the invocation    *)
(* uses.                                                                   *)
(***************************************************************************)
\* what an invocation holds of the entries it resolved
HeldEntries(r) == <<r.model_config, r.chunking_config, r.source_type, r.store_config>>

\* route is suspended in handler.fetch or in provider.call
Suspended(r) == r.pc \in {"fetch", "call"}

C30_RunningRouteKeepsItsEntries ==
    [][\A i \in Invocations :
          Suspended(rt[i]) =>
             /\ HeldEntries(rt'[i]) = HeldEntries(rt[i])
             /\ (rt[i].pc = "fetch" /\ rt'[i].pc # "fetch"
                    /\ handler_fetches'[i][1].outcome = "returned") =>
                   rt'[i].chunks = chunk_text(rt'[i].content, rt[i].chunking_config)
             /\ handler_fetches'[i][1].config = rt[i].store_config
             /\ \A k \in 1..Len(provider_calls'[i]) :
                   provider_calls'[i][k].model_config = rt[i].model_config
             /\ rt'[i].pc = "done" =>
                   /\ rt'[i].response.result =
                         aggregate(rt'[i].chunk_responses, rt[i].chunking_config.aggregation)
                   /\ rt'[i].response.metadata.model = rt[i].model_config.model
                   /\ rt'[i].response.metadata.chunks_processed = Len(rt'[i].chunks)]_vars

\* a route suspended in a provider call whose rule name and label have been
\* registered again since it started: the table now holds another model
\* config, no chunking config and another source kind, and the call in
\* flight was made with what the route holds, on the text chunked as the
\* rule asked at the start
C30_Witness ==
    \E i \in Invocations :
       /\ rt[i].pc = "call"
       /\ _rules[rt[i].rule_name].model_config # rt[i].model_config
       /\ _rules[rt[i].rule_name].chunking_config = NoneRecord
       /\ rt[i].chunking_config.aggregation = "average_score"
       /\ _data_sources[rt[i].store_label].type # rt[i].source_type
       /\ provider_calls[i][1].model_config = rt[i].model_config
       /\ rt[i].chunks = <<rt[i].content>>
       /\ rt[i].chunks # chunk_text(rt[i].content, DefaultChunkingConfig)

====
